---- MODULE Spec2Model ----
(***************************************************************************)
(* Serial command protocol engine of the BGG guitar firmware               *)
(* (src/firmware/serial_handler.py, handle_serial) together with the part  *)
(* of src/firmware/boot.py that decides whether the filesystem is writable *)
(* by the firmware.                                                        *)
(*                                                                         *)
(* Text is modelled as a sequence of symbols.  A symbol stands for a fixed *)
(* fragment of text (a command tag, ":", a file-name part, a JSON entry,   *)
(* "\n", "\r", ...).  One symbol is one unit read by serial.read(1): the   *)
(* code treats every character other than "\n" alike (buffer += char), so  *)
(* the fragments are chosen such that every place where the code looks     *)
(* inside a line (":" separators, tag prefixes, the ".json" suffix,        *)
(* trailing "\r") falls on a symbol boundary.  No concatenation of symbols *)
(* used below spells the text of a different sequence of symbols.          *)
(***************************************************************************)
EXTENDS Integers, Sequences, FiniteSets, TLC

\* ------------------------------------------------------------------ bounds
\* largest number of symbols the wire hands to the channel at once
MaxChunk == 3
\* a second byte budget next to the default one
SmallBudget == 1
\* bytes still waiting in the channel when the client sends the next line
MaxBacklog == 1

\* ------------------------------------------------------ program constants
\* max_bytes=8, the default byte budget of handle_serial
DefaultMaxBytes == 8

NL == "\n"
CR == "\r"
\* a byte that is not valid UTF-8 on its own: byte.decode("utf-8") raises
BadByte == "\\xFF"

\* ------------------------------------------------------------ text helpers
Last(s) == s[Len(s)]

RECURSIVE Flatten(_)
\* "".join(parts)
Flatten(ss) == IF ss = <<>> THEN <<>> ELSE Head(ss) \o Flatten(Tail(ss))

RECURSIVE Join(_, _)
\* sep.join(parts)
Join(ss, sep) ==
  IF ss = <<>> THEN <<>>
  ELSE IF Len(ss) = 1 THEN Head(ss)
  ELSE Head(ss) \o <<sep>> \o Join(Tail(ss), sep)

RECURSIVE RStripCRLF(_)
\* buffer.rstrip("\r\n")
RStripCRLF(s) ==
  IF s # <<>> /\ Last(s) \in {CR, NL} THEN RStripCRLF(SubSeq(s, 1, Len(s) - 1))
  ELSE s

IsSpace(t) == t \in {" ", CR, NL}

RECURSIVE LStrip(_)
LStrip(s) == IF s # <<>> /\ IsSpace(Head(s)) THEN LStrip(Tail(s)) ELSE s

RECURSIVE RStrip(_)
RStrip(s) ==
  IF s # <<>> /\ IsSpace(Last(s)) THEN RStrip(SubSeq(s, 1, Len(s) - 1)) ELSE s

\* str.strip()
Strip(s) == LStrip(RStrip(s))

\* line.startswith(tag + ":")
StartsWithTag(line, tag) == Len(line) >= 2 /\ line[1] = tag /\ line[2] = ":"

RECURSIVE SplitOn(_, _)
\* s.split(sep): the parts between the separators (always at least one part)
SplitOn(s, sep) ==
  IF \A i \in 1..Len(s) : s[i] # sep THEN <<s>>
  ELSE LET i == CHOOSE j \in 1..Len(s) :
                  s[j] = sep /\ \A k \in 1..(j - 1) : s[k] # sep
       IN <<SubSeq(s, 1, i - 1)>> \o SplitOn(SubSeq(s, i + 1, Len(s)), sep)

\* line.split(":", 1)[1] for a line that starts with "<tag>:"
AfterTag(line) == SubSeq(line, 3, Len(line))

RECURSIVE ReadLines(_)
\* f.readlines(): every line keeps its "\n"; the last one may have none
ReadLines(c) ==
  IF c = <<>> THEN <<>>
  ELSE IF \A i \in 1..Len(c) : c[i] # NL THEN <<c>>
  ELSE LET i == CHOOSE j \in 1..Len(c) :
                  c[j] = NL /\ \A k \in 1..(j - 1) : c[k] # NL
       IN <<SubSeq(c, 1, i)>> \o ReadLines(SubSeq(c, i + 1, Len(c)))

\* the lines a client reads from a stream of written bytes: the text
\* between the newlines (what follows the last newline is not a line yet)
ClientLines(out) ==
  LET parts == SplitOn(out, NL) IN SubSeq(parts, 1, Len(parts) - 1)

\* ----------------------------------------------------------------- JSON
\* Documents are built from the symbols "{", "}", ",", ", ", "[1]" and one
\* symbol per object entry, in the compact form "k":v a client sends or in
\* the form "k": v that json.dumps writes.
JsonKeys == {"NewUserPreset1", "B", "GREEN_FRET"}
JsonVals == {"1", "2", "\"GP10\""}
CompactEntry(k, v) == "\"" \o k \o "\":" \o v
SpacedEntry(k, v) == "\"" \o k \o "\": " \o v
EntrySyms == {CompactEntry(k, v) : k \in JsonKeys, v \in JsonVals}
               \cup {SpacedEntry(k, v) : k \in JsonKeys, v \in JsonVals}
EntryOf(t) == CHOOSE kv \in JsonKeys \X JsonVals :
                t \in {CompactEntry(kv[1], kv[2]), SpacedEntry(kv[1], kv[2])}

\* a Python dict: key/value pairs in insertion order, keys unique
DictHas(d, k) == \E i \in 1..Len(d) : d[i][1] = k
\* d[k] = v
DictSet(d, k, v) ==
  IF DictHas(d, k)
  THEN [i \in 1..Len(d) |-> IF d[i][1] = k THEN <<k, v>> ELSE d[i]]
  ELSE Append(d, <<k, v>>)
RECURSIVE DictUpdate(_, _)
\* d.update(e)
DictUpdate(d, e) ==
  IF e = <<>> THEN d
  ELSE DictUpdate(DictSet(d, Head(e)[1], Head(e)[2]), Tail(e))
\* d.get(k, default)
DictGet(d, k, default) ==
  IF DictHas(d, k)
  THEN (d[CHOOSE i \in 1..Len(d) : d[i][1] = k])[2]
  ELSE default

\* parsed JSON values: a dict, or a list (valid JSON that is no mapping)
JDict(d) == [kind |-> "dict", d |-> d]
JList == [kind |-> "list", d |-> <<>>]
EmptyDict == JDict(<<>>)
NoJson == [kind |-> "invalid", d |-> <<>>]

\* json.loads(text): NoJson stands for the ValueError it raises
JsonLoads(text) ==
  LET c == SelectSeq(text, LAMBDA t : ~IsSpace(t))
      n == Len(c)
  IN IF c = <<"[1]">> THEN JList
     ELSE IF n < 2 \/ c[1] # "{" \/ c[n] # "}" THEN NoJson
     ELSE IF n = 2 THEN EmptyDict
     ELSE IF /\ n % 2 = 1
             /\ \A i \in 2..(n - 1) :
                  IF i % 2 = 0 THEN c[i] \in EntrySyms ELSE c[i] \in {",", ", "}
          THEN JDict(DictUpdate(<<>>,
                  [j \in 1..((n - 1) \div 2) |-> EntryOf(c[2 * j])]))
          ELSE NoJson

\* json.dumps(value) of a dict or a list
JsonDumps(v) ==
  IF v.kind = "list" THEN <<"[1]">>
  ELSE <<"{">>
         \o Join([i \in 1..Len(v.d) |-> <<SpacedEntry(v.d[i][1], v.d[i][2])>>], ", ")
         \o <<"}">>

\* ------------------------------------------------------------ file system
Root == "/"
ConfigPath == <<Root, "config", ".json">>
PresetsPath == <<Root, "user_presets", ".json">>
NotesPath == <<Root, "notes", ".txt">>

\* a suffix test that never matches
EndsWithJsonNever(path) == FALSE

\* filename.endswith(".json")
EndsWithJson(path) == path # <<>> /\ Last(path) = ".json"

\* the files a device can hold when the engine starts: written by an earlier
\* session, saved by the firmware, or copied onto the USB drive by the host
DiskA == (ConfigPath :> <<"{", SpacedEntry("B", "1"), "}", NL>>)
DiskB == (ConfigPath :> <<"{", SpacedEntry("B", "1"), "}", NL>>)
           @@ (PresetsPath :> <<"{", SpacedEntry("B", "1"), "}", NL>>)
           @@ (NotesPath :> <<"hello", NL, "world">>)
DiskC == (ConfigPath :> <<"{", SpacedEntry("B", "1"), "}", NL>>)
           @@ (PresetsPath :> <<"[1]", NL>>)
           @@ (NotesPath :> <<>>)

\* ---------------------------------------------------------------- hardware
ButtonKeys == {"GREEN_FRET", "RED_FRET"}
\* number of pixels of the LED strip
LedCount == 2
Black == <<0, 0, 0>>
\* config.get(led_key): the LED index configured for a role, -1 for None
\* (STRUM_UP_led is configured beyond the end of the strip)
ConfigLedIndex(key) ==
  CASE key = "GREEN_FRET_led" -> 0
    [] key = "RED_FRET_led" -> 1
    [] key = "STRUM_UP_led" -> 7
    [] OTHER -> -1

\* name_map of the PREVIEWLED handler; "" stands for None
NameMap(name) ==
  CASE name \in {"green-fret", "green-fret-pressed", "green-fret-released"}
         -> "GREEN_FRET_led"
    [] name \in {"red-fret", "red-fret-pressed", "red-fret-released"}
         -> "RED_FRET_led"
    [] name \in {"yellow-fret", "yellow-fret-pressed", "yellow-fret-released"}
         -> "YELLOW_FRET_led"
    [] name \in {"blue-fret", "blue-fret-pressed", "blue-fret-released"}
         -> "BLUE_FRET_led"
    [] name \in {"orange-fret", "orange-fret-pressed", "orange-fret-released"}
         -> "ORANGE_FRET_led"
    [] name \in {"strum-up", "strum-up-active", "strum-up-released"}
         -> "STRUM_UP_led"
    [] name \in {"strum-down", "strum-down-active", "strum-down-released"}
         -> "STRUM_DOWN_led"
    [] OTHER -> ""

\* str.lower() of one symbol
Lower(t) ==
  CASE t = "GREEN-FRET" -> "green-fret"
    [] t = "TRUE" -> "true"
    [] t = "ON" -> "on"
    [] OTHER -> t

\* hex_to_rgb: <<-1>> stands for the ValueError of a malformed colour
HexToRgb(h) ==
  CASE h = <<"#FF0000">> -> <<255, 0, 0>>
    [] h = <<"#0A141E">> -> <<10, 20, 30>>
    [] OTHER -> <<-1>>

\* int(text): <<n>> for the integers the lines below spell, <<>> for the
\* ValueError of anything else
IntOf(p) ==
  CASE p = <<"0">> -> <<0>>
    [] p = <<"1">> -> <<1>>
    [] p = <<"2">> -> <<2>>
    [] p = <<"10">> -> <<10>>
    [] p = <<"20">> -> <<20>>
    [] p = <<"30">> -> <<30>>
    [] p = <<"255">> -> <<255>>
    [] p = <<"300">> -> <<300>>
    [] p = <<"-1">> -> <<-1>>
    [] OTHER -> <<>>

\* what the analog inputs and the chip report
WhammyValue == "512"
JoystickXValue == "100"
JoystickYValue == "200"
UidHex == "E6614103E7"
\* the pin detect_pin reports when it finds one
DetectedPin == "GP10"

\* How the collaborators behave while one invocation runs: what detect_pin
\* does, whether a collaborator call of the firmware (start_tilt_wave,
\* cancel_pin_detect, update_button_states) raises, whether
\* microcontroller.reset / on_next_reset raise, and the level of the pins.
\* No handler consults more than one of detect, collab and reset.
Nominal == [detect |-> "pin", collab |-> "ok", reset |-> "ok", arm |-> "ok",
            level |-> TRUE]
Oracles == {Nominal,
            [Nominal EXCEPT !.detect = "none", !.level = FALSE],
            [Nominal EXCEPT !.detect = "raise", !.collab = "raise", !.reset = "raise"],
            [Nominal EXCEPT !.arm = "raise"]}

\* ------------------------------------------------- the engine, one line
\* The engine state is a record s: the values handle_serial receives and
\* returns (buffer, mode, filename, file_lines, config, leds, buttons,
\* whammy, user_presets, preset_colors), the serial channel (rx: bytes
\* waiting, tx: bytes written), the file system and the chip, and the
\* bookkeeping of the run (ev: collaborator calls made, exc: the exception
\* in flight, ret: the invocation has returned).
None == "None"

Out(s, bytes) == [s EXCEPT !.tx = @ \o bytes]
\* a collaborator call; at notes how much had been written to the serial
\* channel when the call was made
Did(s, e) == [s EXCEPT !.ev = Append(@, e), !.at = Append(@, Len(s.tx))]
Raise(s, e) == [s EXCEPT !.exc = e]
\* str(e) of an exception
ErrMsg(e) == "<" \o e \o ">"

\* open(path, "w") raises: the file system is read-only for the firmware
\* (boot.py left the USB drive enabled) or the path is a directory
CannotWrite(s, path) == ~s.writable \/ path = <<Root>>
\* with open(path, "w") as f: f.write(content)
FileWrite(s, path, content) ==
  Did([s EXCEPT !.fs = (path :> content) @@ @], "file.write")

\* pin_detect.deinit_all_buttons(buttons)
deinit_all_buttons(s) ==
  Did([s EXCEPT !.buttons = [k \in ButtonKeys |-> FALSE]], "deinit_all_buttons")
\* hardware.setup_buttons(config, raw_config)
setup_buttons(s) ==
  Did([s EXCEPT !.buttons = [k \in ButtonKeys |-> TRUE]], "setup_buttons")

\* lines 28-40
HandleDetectPin(s, line, f) ==
  LET button_name == Strip(AfterTag(line))
      s1 == deinit_all_buttons(s)
      s2 == Out(s1, <<"PINDETECT:START:">> \o button_name \o <<NL>>)
      s3 == Did(s2, "detect_pin")
  IN IF f.detect = "raise" THEN Raise(s3, "RuntimeError")
     ELSE LET s4 == IF f.detect = "pin"
                    THEN Out(s3, <<"PINDETECT:DETECTED:">> \o button_name
                                   \o <<":", DetectedPin, NL>>)
                    ELSE Out(s3, <<"PINDETECT:NONE:">> \o button_name \o <<NL>>)
          IN [setup_buttons(s4) EXCEPT !.ret = TRUE]

\* pin_detect.save_detected_pin("/config.json", button_name, pin_name):
\* the pin assignment is stored in the configuration document on disk
save_detected_pin(s, button_name, pin_name) ==
  LET doc == IF ConfigPath \in DOMAIN s.fs THEN JsonLoads(s.fs[ConfigPath])
             ELSE NoJson
  IN IF doc.kind # "dict" \/ Len(button_name) # 1 \/ Len(pin_name) # 1
     THEN Raise(s, "ValueError")
     ELSE IF CannotWrite(s, ConfigPath) THEN Raise(s, "OSError")
     ELSE FileWrite(s, ConfigPath,
            JsonDumps(JDict(DictSet(doc.d, button_name[1],
                                    "\"" \o pin_name[1] \o "\""))))

\* lines 42-50
HandleSavePin(s, line) ==
  LET parts == SplitOn(line, ":")
      r == IF Len(parts) # 3 THEN Raise(s, "ValueError")
           ELSE save_detected_pin(s, parts[2], parts[3])
  IN [(IF r.exc # ""
       THEN Out([r EXCEPT !.exc = ""], <<"PINDETECT:ERROR:", ErrMsg(r.exc), NL>>)
       ELSE Out(r, <<"PINDETECT:SAVED:">> \o parts[2] \o <<":">> \o parts[3]
                     \o <<NL>>))
      EXCEPT !.ret = TRUE]

\* lines 52-56
HandleCancelPinDetect(s, f) ==
  IF f.collab = "raise" THEN Raise(s, "RuntimeError")
  ELSE [Out(Did(s, "cancel_pin_detect"), <<"PINDETECT:CANCELLED", NL>>)
        EXCEPT !.ret = TRUE]

\* lines 59-97: every failure is caught and logged, nothing is returned
HandlePreviewLed(s, line) ==
  LET parts == SplitOn(line, ":") IN
  IF Len(parts) # 3 THEN s
  ELSE LET led_name == parts[2]
           hex_color == parts[3]
           led_key == IF Len(led_name) = 1 THEN NameMap(Lower(led_name[1]))
                      ELSE ""
           i == ConfigLedIndex(led_key)
           rgb == HexToRgb(hex_color)
       IN IF i # -1 /\ s.leds.present
          THEN IF rgb = <<-1>> \/ i >= LedCount THEN s
               ELSE Did([s EXCEPT !.leds.px[i + 1] = rgb], "leds.show")
          ELSE s

\* lines 99-109
HandleReadFile(s, line) ==
  LET path == <<Root>> \o AfterTag(line)
      s1 == [s EXCEPT !.filename = path]
  IN IF path \in DOMAIN s.fs /\ path # <<Root>>
     THEN Out(Out(s1, Flatten(ReadLines(s.fs[path]))), <<"END", NL>>)
     ELSE Out(s1, <<"ERROR: ", ErrMsg("OSError"), NL, "END", NL>>)

\* lines 111-115
HandleReadWhammy(s) ==
  IF s.whammy.present
  THEN IF ~s.whammy.live THEN Raise(s, "ValueError")
       ELSE Out(s, <<"WHAMMY:", WhammyValue, NL>>)
  ELSE Out(s, <<"WHAMMY:-1", NL>>)

\* lines 118-124
HandleReadJoystick(s) ==
  IF s.joystick
  THEN Out(s, <<"JOYSTICK:X:", JoystickXValue, ":Y:", JoystickYValue, NL>>)
  ELSE Out(s, <<"JOYSTICK:X:-1:Y:-1", NL>>)

\* WRITEFILE that takes the name as the path, without the leading "/"
HandleWriteFileNoRoot(s, line) ==
  [s EXCEPT !.filename = AfterTag(line),
            !.file_lines = <<>>,
            !.mode = "write"]

\* lines 127-131
HandleWriteFile(s, line) ==
  [s EXCEPT !.filename = <<Root>> \o AfterTag(line),
            !.file_lines = <<>>,
            !.mode = "write"]

\* lines 134-138
HandleImportUser(s) ==
  [s EXCEPT !.filename = PresetsPath, !.file_lines = <<>>, !.mode = "merge_user"]

\* lines 141-151 (and 310-317): reading a deinitialized pin raises
HandleReadPin(s, line, f) ==
  LET key == Strip(AfterTag(line)) IN
  IF Len(key) = 1 /\ key[1] \in ButtonKeys
  THEN IF ~s.buttons[key[1]] THEN Raise(s, "ValueError")
       ELSE Out(s, <<"PIN:">> \o key \o <<":", IF f.level THEN "0" ELSE "1", NL>>)
  ELSE Out(s, <<"PIN:">> \o key \o <<":ERR", NL>>)

\* lines 154-158
HandleTiltWave(s, f) ==
  IF f.collab = "raise" THEN Raise(s, "RuntimeError")
  ELSE Out(Did(s, "start_tilt_wave"), <<"TILTWAVE:STARTED", NL>>)

\* SETLED without the range check of the colour channels
HandleSetLedUnchecked(s, line) ==
  LET parts == SplitOn(line, ":") IN
  IF Len(parts) = 5
  THEN LET led_index == IntOf(parts[2])
           r == IntOf(parts[3])
           g == IntOf(parts[4])
           b == IntOf(parts[5])
       IN IF <<>> \in {led_index, r, g, b}
          THEN Out(s, <<"ERROR: SETLED command failed: ", ErrMsg("ValueError"), NL>>)
          ELSE IF /\ s.leds.present
                  /\ 0 <= led_index[1] /\ led_index[1] < LedCount
               THEN Out(Did([s EXCEPT !.leds.px[led_index[1] + 1] =
                                         <<r[1], g[1], b[1]>>], "leds.show"),
                        <<"SETLED:", ToString(led_index[1]), ":OK", NL>>)
               ELSE Out(s, <<"SETLED:", ToString(led_index[1]), ":ERR", NL>>)
  ELSE Out(s, <<"ERROR: Invalid SETLED format", NL>>)

\* lines 161-180
HandleSetLed(s, line) ==
  LET parts == SplitOn(line, ":") IN
  IF Len(parts) = 5
  THEN LET led_index == IntOf(parts[2])
           r == IntOf(parts[3])
           g == IntOf(parts[4])
           b == IntOf(parts[5])
       IN IF <<>> \in {led_index, r, g, b}
          THEN Out(s, <<"ERROR: SETLED command failed: ", ErrMsg("ValueError"), NL>>)
          ELSE IF /\ s.leds.present
                  /\ 0 <= led_index[1] /\ led_index[1] < LedCount
                  /\ 0 <= r[1] /\ r[1] <= 255
                  /\ 0 <= g[1] /\ g[1] <= 255
                  /\ 0 <= b[1] /\ b[1] <= 255
               THEN Out(Did([s EXCEPT !.leds.px[led_index[1] + 1] =
                                         <<r[1], g[1], b[1]>>], "leds.show"),
                        <<"SETLED:", ToString(led_index[1]), ":OK", NL>>)
               ELSE Out(s, <<"SETLED:", ToString(led_index[1]), ":ERR", NL>>)
  ELSE Out(s, <<"ERROR: Invalid SETLED format", NL>>)

\* code.update_button_states(...): the LEDs show the released colours again
update_button_states(s) ==
  Did([s EXCEPT !.leds.px = [i \in 1..LedCount |-> Black]], "update_button_states")

\* lines 183-193
HandleLedRestore(s, f) ==
  IF f.collab = "raise"
  THEN Out(s, <<"ERROR: LED restore failed: ", ErrMsg("RuntimeError"), NL>>)
  ELSE Out(update_button_states(s), <<"LEDRESTORE:OK", NL>>)

\* lines 196-206
HandleTiltWaveEnable(s, line, f) ==
  LET arg == Strip(AfterTag(line))
      enabled_str == IF Len(arg) = 1 THEN Lower(arg[1]) ELSE ""
      enabled == enabled_str \in {"true", "1", "yes", "on"}
      s1 == [s EXCEPT !.tilt = enabled]
  IN IF f.collab = "raise"
     THEN Out(s1, <<"ERROR: Invalid TILTWAVE_ENABLE command: ",
                    ErrMsg("RuntimeError"), NL>>)
     ELSE Out(s1, <<"TILTWAVE_ENABLE:", IF enabled THEN "True" ELSE "False", NL>>)

\* microcontroller.reset(): the device restarts, no later invocation runs
McuReset(s, f) ==
  IF f.reset = "raise" THEN Raise(Did(s, "reset"), "RuntimeError")
  ELSE [Did(s, "reset") EXCEPT !.halted = TRUE]

\* the release path without the release of the LED strip
ReleaseAndResetKeepLeds(s, f) ==
  LET s2 == [s EXCEPT !.buttons = [k \in ButtonKeys |-> FALSE],
                      !.ev = @ \o [i \in 1..Cardinality(ButtonKeys) |-> "pin.deinit"],
                      !.at = @ \o [i \in 1..Cardinality(ButtonKeys) |-> Len(s.tx)]]
      s3 == IF s2.whammy.present
            THEN Did([s2 EXCEPT !.whammy.live = FALSE], "whammy.deinit") ELSE s2
  IN McuReset(s3, f)

\* lines 224-237: release the hardware, then reset
ReleaseAndReset(s, f) ==
  LET s1 == IF s.leds.present
            THEN Did([s EXCEPT !.leds.live = FALSE], "leds.deinit") ELSE s
      s2 == [s1 EXCEPT !.buttons = [k \in ButtonKeys |-> FALSE],
                       !.ev = @ \o [i \in 1..Cardinality(ButtonKeys) |-> "pin.deinit"],
                       !.at = @ \o [i \in 1..Cardinality(ButtonKeys) |-> Len(s.tx)]]
      s3 == IF s2.whammy.present
            THEN Did([s2 EXCEPT !.whammy.live = FALSE], "whammy.deinit") ELSE s2
  IN McuReset(s3, f)

\* lines 211-242, the body of the try ("OK" stands for the check-mark symbol
\* that starts the success markers)
WriteEndBody(s, f) ==
  LET raw == Join(s.file_lines, NL) IN
  IF EndsWithJson(s.filename)
  THEN LET parsed == JsonLoads(raw) IN
       IF parsed = NoJson THEN Raise(s, "ValueError")
       ELSE IF CannotWrite(s, s.filename) THEN Raise(s, "OSError")
       ELSE LET s1 == FileWrite(s, s.filename, raw \o <<NL>>)
                s2 == Out(s1, <<"OK File ">> \o s.filename \o <<" written", NL>>)
            IN IF s.filename = PresetsPath
               THEN LET s3 == [s2 EXCEPT !.user_presets = parsed] IN
                    IF parsed.kind # "dict" THEN Raise(s3, "AttributeError")
                    ELSE [s3 EXCEPT !.preset_colors =
                                       DictGet(parsed.d, "NewUserPreset1", "{}")]
               ELSE IF s.filename = ConfigPath THEN ReleaseAndReset(s2, f)
               ELSE s2
  ELSE IF CannotWrite(s, s.filename) THEN Raise(s, "OSError")
       ELSE FileWrite(s, s.filename, raw \o <<NL>>)

\* the write session that answers every payload line
HandleWriteModeEcho(s, line, f) ==
  IF line = <<"END">>
  THEN LET r == WriteEndBody(s, f)
           r1 == IF r.exc # ""
                 THEN Out([r EXCEPT !.exc = ""],
                          <<"ERROR: Failed to write ">> \o s.filename
                            \o <<": ", ErrMsg(r.exc), NL>>)
                 ELSE r
       IN [r1 EXCEPT !.mode = None, !.file_lines = <<>>]
  ELSE Out([s EXCEPT !.file_lines = Append(@, line)], <<"OK", NL>>)

\* lines 209-249
HandleWriteMode(s, line, f) ==
  IF line = <<"END">>
  THEN LET r == WriteEndBody(s, f)
           r1 == IF r.exc # ""
                 THEN Out([r EXCEPT !.exc = ""],
                          <<"ERROR: Failed to write ">> \o s.filename
                            \o <<": ", ErrMsg(r.exc), NL>>)
                 ELSE r
       IN [r1 EXCEPT !.mode = None, !.file_lines = <<>>]
  ELSE [s EXCEPT !.file_lines = Append(@, line)]

\* the merge with the new entries appended to the existing ones
MergeEndBodyAppend(s) ==
  LET new_data == JsonLoads(Join(s.file_lines, NL))
      onDisk == IF s.filename \in DOMAIN s.fs THEN JsonLoads(s.fs[s.filename])
                ELSE NoJson
      existing == IF onDisk = NoJson THEN EmptyDict ELSE onDisk
  IN IF new_data = NoJson THEN Raise(s, "ValueError")
     ELSE IF existing.kind # "dict" THEN Raise(s, "AttributeError")
     ELSE IF new_data.kind # "dict" THEN Raise(s, "TypeError")
     ELSE LET merged == JDict(existing.d \o new_data.d) IN
          IF CannotWrite(s, s.filename) THEN Raise(s, "OSError")
          ELSE Out([FileWrite(s, s.filename, JsonDumps(merged) \o <<NL>>)
                    EXCEPT !.user_presets = merged,
                           !.preset_colors = DictGet(merged.d, "NewUserPreset1", "{}")],
                   <<"OK Merged into ">> \o s.filename \o <<NL>>)

\* lines 255-267, the body of the try
MergeEndBody(s) ==
  LET new_data == JsonLoads(Join(s.file_lines, NL))
      onDisk == IF s.filename \in DOMAIN s.fs THEN JsonLoads(s.fs[s.filename])
                ELSE NoJson
      existing == IF onDisk = NoJson THEN EmptyDict ELSE onDisk
  IN IF new_data = NoJson THEN Raise(s, "ValueError")
     ELSE IF existing.kind # "dict" THEN Raise(s, "AttributeError")
     ELSE IF new_data.kind # "dict" THEN Raise(s, "TypeError")
     ELSE LET merged == JDict(DictUpdate(existing.d, new_data.d)) IN
          IF CannotWrite(s, s.filename) THEN Raise(s, "OSError")
          ELSE Out([FileWrite(s, s.filename, JsonDumps(merged) \o <<NL>>)
                    EXCEPT !.user_presets = merged,
                           !.preset_colors = DictGet(merged.d, "NewUserPreset1", "{}")],
                   <<"OK Merged into ">> \o s.filename \o <<NL>>)

\* the merge session that goes Idle only when the merge succeeded
HandleMergeModeSticky(s, line) ==
  IF line = <<"END">>
  THEN LET r == MergeEndBody(s) IN
       IF r.exc # ""
       THEN Out([r EXCEPT !.exc = ""], <<"ERROR: ", ErrMsg(r.exc), NL>>)
       ELSE [r EXCEPT !.mode = None, !.file_lines = <<>>]
  ELSE [s EXCEPT !.file_lines = Append(@, line)]

\* lines 252-274
HandleMergeMode(s, line) ==
  IF line = <<"END">>
  THEN LET r == MergeEndBody(s)
           r1 == IF r.exc # ""
                 THEN Out([r EXCEPT !.exc = ""], <<"ERROR: ", ErrMsg(r.exc), NL>>)
                 ELSE r
       IN [r1 EXCEPT !.mode = None, !.file_lines = <<>>]
  ELSE [s EXCEPT !.file_lines = Append(@, line)]

\* REBOOTBOOTSEL that resets before it acknowledges
HandleRebootBootselResetFirst(s, f) ==
  LET r == IF f.arm = "raise" THEN Raise(s, "RuntimeError")
           ELSE McuReset(Did([s EXCEPT !.bootsel = TRUE], "on_next_reset"), f)
      r1 == Out(r, <<" Rebooting to BOOTSEL mode...", NL>>)
  IN IF r1.exc # ""
     THEN Out([r1 EXCEPT !.exc = ""],
              <<"ERROR: Failed to reboot to BOOTSEL: ", ErrMsg(r1.exc), NL>>)
     ELSE r1

\* lines 277-285
HandleRebootBootsel(s, f) ==
  LET s1 == Out(s, <<" Rebooting to BOOTSEL mode...", NL>>)
      r == IF f.arm = "raise" THEN Raise(s1, "RuntimeError")
           ELSE McuReset(Did([s1 EXCEPT !.bootsel = TRUE], "on_next_reset"), f)
  IN IF r.exc # ""
     THEN Out([r EXCEPT !.exc = ""],
              <<"ERROR: Failed to reboot to BOOTSEL: ", ErrMsg(r.exc), NL>>)
     ELSE r

\* lines 287-294
HandleReboot(s, f) ==
  LET r == McuReset(Out(s, <<"Rebooting...", NL>>), f)
  IN IF r.exc # ""
     THEN Out([r EXCEPT !.exc = ""],
              <<"ERROR: Failed to reboot: ", ErrMsg(r.exc), NL>>)
     ELSE r

\* lines 296-306
HandleReadUid(s) == Out(s, <<UidHex, NL, "END", NL>>)

\* the fallback that leaves an unknown command unanswered
HandleFallbackSilent(s, line, f) ==
  IF StartsWithTag(line, "READPIN") THEN HandleReadPin(s, line, f) ELSE s

\* lines 309-319
HandleFallback(s, line, f) ==
  IF StartsWithTag(line, "READPIN") THEN HandleReadPin(s, line, f)
  ELSE Out(s, <<"ERROR: Unknown command", NL>>)

\* lines 99-319: the if/elif chain that follows the PREVIEWLED block
DispatchChain(s, line, f) ==
  IF s.mode = None /\ StartsWithTag(line, "READFILE") THEN HandleReadFile(s, line)
  ELSE IF s.mode = None /\ line = <<"READWHAMMY">> THEN HandleReadWhammy(s)
  ELSE IF s.mode = None /\ line = <<"READJOYSTICK">> THEN HandleReadJoystick(s)
  ELSE IF s.mode = None /\ StartsWithTag(line, "WRITEFILE") THEN HandleWriteFile(s, line)
  ELSE IF s.mode = None /\ line = <<"IMPORTUSER">> THEN HandleImportUser(s)
  ELSE IF s.mode = None /\ StartsWithTag(line, "READPIN") THEN HandleReadPin(s, line, f)
  ELSE IF s.mode = None /\ line = <<"TILTWAVE">> THEN HandleTiltWave(s, f)
  ELSE IF s.mode = None /\ StartsWithTag(line, "SETLED") THEN HandleSetLed(s, line)
  ELSE IF s.mode = None /\ line = <<"LEDRESTORE">> THEN HandleLedRestore(s, f)
  ELSE IF s.mode = None /\ StartsWithTag(line, "TILTWAVE_ENABLE")
       THEN HandleTiltWaveEnable(s, line, f)
  ELSE IF s.mode = "write" THEN HandleWriteMode(s, line, f)
  ELSE IF s.mode = "merge_user" THEN HandleMergeMode(s, line)
  ELSE IF s.mode = None /\ line = <<"REBOOTBOOTSEL">> THEN HandleRebootBootsel(s, f)
  ELSE IF s.mode = None /\ line = <<"REBOOT">> THEN HandleReboot(s, f)
  ELSE IF s.mode = None /\ line = <<"READUID">> THEN HandleReadUid(s)
  ELSE IF s.mode = None THEN HandleFallback(s, line, f)
  ELSE s

\* the dispatch that is done with a PREVIEWLED line once the preview ran
DispatchPreviewOnly(s, line, f) ==
  IF s.mode = None /\ StartsWithTag(line, "DETECTPIN") THEN HandleDetectPin(s, line, f)
  ELSE IF s.mode = None /\ StartsWithTag(line, "SAVEPIN") THEN HandleSavePin(s, line)
  ELSE IF s.mode = None /\ line = <<"CANCELPINDETECT">> THEN HandleCancelPinDetect(s, f)
  ELSE IF StartsWithTag(line, "PREVIEWLED") THEN HandlePreviewLed(s, line)
  ELSE DispatchChain(s, line, f)

\* lines 28-319: what one completed line does
Dispatch(s, line, f) ==
  IF s.mode = None /\ StartsWithTag(line, "DETECTPIN") THEN HandleDetectPin(s, line, f)
  ELSE IF s.mode = None /\ StartsWithTag(line, "SAVEPIN") THEN HandleSavePin(s, line)
  ELSE IF s.mode = None /\ line = <<"CANCELPINDETECT">> THEN HandleCancelPinDetect(s, f)
  ELSE IF StartsWithTag(line, "PREVIEWLED")
       THEN DispatchChain(HandlePreviewLed(s, line), line, f)
  ELSE DispatchChain(s, line, f)

\* ------------------------------------------------ the engine, one call
\* what the caller holds between two invocations and the device around it,
\* with the note of the last merge session (merged)
Snap(s) ==
  [buffer |-> s.buffer, mode |-> s.mode, filename |-> s.filename,
   file_lines |-> s.file_lines, tilt |-> s.tilt, leds |-> s.leds,
   buttons |-> s.buttons, whammy |-> s.whammy,
   user_presets |-> s.user_presets, preset_colors |-> s.preset_colors,
   fs |-> s.fs, bootsel |-> s.bootsel, halted |-> s.halted,
   merged |-> s.merged]

\* the handler of the outer try without the reset of the payload
CrashKeepPayload(s) ==
  [Out(s, <<"ERROR: Serial crash: ", ErrMsg(s.exc), NL>>)
   EXCEPT !.buffer = <<>>, !.mode = None, !.exc = "", !.ret = TRUE]

\* lines 322-327, the handler of the outer try
Crash(s) ==
  [Out(s, <<"ERROR: Serial crash: ", ErrMsg(s.exc), NL>>)
   EXCEPT !.buffer = <<>>, !.mode = None, !.file_lines = <<>>,
          !.exc = "", !.ret = TRUE]

\* bookkeeping, the note of the last completed IMPORTUSER session: its
\* payload, whether it changed the preset file, and the file system and the
\* preset cache it left
NoMerge ==
  [done |-> FALSE, payload |-> <<>>, changed |-> FALSE, fs |-> <<>>,
   user_presets |-> EmptyDict, preset_colors |-> "{}"]
Noted(s, r, line, kind) ==
  IF kind = "line" /\ s.mark.mode = "merge_user" /\ line = <<"END">>
  THEN [r EXCEPT !.merged = [done |-> TRUE, payload |-> s.mark.file_lines,
                             changed |-> r.fs # s.mark.fs, fs |-> r.fs,
                             user_presets |-> r.user_presets,
                             preset_colors |-> r.preset_colors]]
  ELSE r

\* bookkeeping: one record per completed line (kind "line") or undecodable
\* byte (kind "decode") with the bytes consumed for it, the state at its
\* start and after it, what was written and called while it was processed
\* (at: how much of the response had been written at each call), and how
\* the collaborators behaved
Logged(s, r0, line, kind, crashed, f) ==
  LET r == Noted(s, r0, line, kind) IN
  [r EXCEPT !.log = Append(@, [raw |-> s.eaten, line |-> line, kind |-> kind,
                               f |-> f, pre |-> s.mark, post |-> Snap(r),
                               tx |-> SubSeq(r.tx, Len(s.tx) + 1, Len(r.tx)),
                               ev |-> SubSeq(r.ev, Len(s.ev) + 1, Len(r.ev)),
                               at |-> [i \in 1..(Len(r.ev) - Len(s.ev)) |->
                                         r.at[Len(s.ev) + i] - Len(s.tx)],
                               crashed |-> crashed]),
            !.mark = Snap(r),
            !.eaten = <<>>]

\* lines 14-328, one pass of the loop body: nothing is read once the
\* invocation has returned, the device has been reset or the channel is
\* empty; eaten collects the bytes read since the last completed line
ByteStep(s, f) ==
  IF s.ret \/ s.halted \/ s.rx = <<>> THEN s
  ELSE LET byte == Head(s.rx)
           s1 == [s EXCEPT !.rx = Tail(@), !.eaten = Append(@, byte)]
       IN IF byte = BadByte
          THEN Logged(s1, Crash(Raise(s1, "UnicodeError")), s.buffer, "decode",
                      TRUE, f)
          ELSE IF byte = NL
          THEN LET line == RStripCRLF(s1.buffer)
                   r == Dispatch([s1 EXCEPT !.buffer = <<>>], line, f)
               IN Logged(s1, IF r.exc # "" THEN Crash(r) ELSE r, line,
                         "line", r.exc # "", f)
          ELSE [s1 EXCEPT !.buffer = Append(@, byte)]

\* the loop that makes one pass more than its budget
ByteLoopGreedy(s, n, f) ==
  LET pass[i \in 0..(n + 1)] == IF i = 0 THEN s ELSE ByteStep(pass[i - 1], f)
  IN pass[n + 1]

\* line 13: for _ in range(max_bytes)
ByteLoop(s, n, f) ==
  LET pass[i \in 0..n] == IF i = 0 THEN s ELSE ByteStep(pass[i - 1], f)
  IN pass[n]

\* the engine that starts every invocation with an empty line buffer
handle_serial_forgetful(s, max_bytes, f) ==
  ByteLoop([s EXCEPT !.buffer = <<>>], max_bytes, f)

\* handle_serial(..., max_bytes)
handle_serial(s, max_bytes, f) == ByteLoop(s, max_bytes, f)

\* ------------------------------------------------------------------ state
VARIABLES
  wire,            \* bytes the client has sent that have not arrived yet
  rx,              \* bytes waiting in the serial channel (serial.in_waiting)
  tx,              \* bytes the last invocation wrote to the serial channel
  buffer, mode, filename, file_lines,   \* returned to and passed by the caller
  tilt,            \* config["tilt_wave_enabled"]
  leds, buttons, whammy, joystick,      \* hardware handles
  user_presets, preset_colors,          \* the in-memory preset cache
  fs,              \* the files on the device
  writable,        \* the firmware may write files (boot.py)
  bootsel,         \* next reset enters the firmware-update mode
  halted,          \* the device has been reset
  log,             \* the lines the last invocation completed
  eaten,           \* the bytes read since the last completed line
  merged,          \* the note of the last completed merge session
  mark,            \* the state at the start of the line being assembled
  todo             \* the lines the client is going to send

vars == <<wire, rx, tx, buffer, mode, filename, file_lines, tilt, leds, buttons,
          whammy, joystick, user_presets, preset_colors, fs, writable, bootsel,
          halted, log, eaten, merged, mark, todo>>

\* the engine state the next invocation starts from
Engine ==
  [rx |-> rx, tx |-> <<>>, ev |-> <<>>, at |-> <<>>, exc |-> "", ret |-> FALSE,
   log |-> <<>>, mark |-> mark, eaten |-> eaten, merged |-> merged,
   buffer |-> buffer, mode |-> mode, filename |-> filename,
   file_lines |-> file_lines, tilt |-> tilt, leds |-> leds,
   buttons |-> buttons, whammy |-> whammy, joystick |-> joystick,
   user_presets |-> user_presets, preset_colors |-> preset_colors,
   fs |-> fs, writable |-> writable, bootsel |-> bootsel, halted |-> halted]

\* the caller takes over what the invocation returns
Returned(r) ==
  /\ rx' = r.rx /\ tx' = r.tx /\ log' = r.log /\ mark' = r.mark
  /\ eaten' = r.eaten /\ merged' = r.merged
  /\ buffer' = r.buffer /\ mode' = r.mode /\ filename' = r.filename
  /\ file_lines' = r.file_lines /\ tilt' = r.tilt /\ leds' = r.leds
  /\ buttons' = r.buttons /\ whammy' = r.whammy
  /\ user_presets' = r.user_presets /\ preset_colors' = r.preset_colors
  /\ fs' = r.fs /\ bootsel' = r.bootsel /\ halted' = r.halted

\* the preset cache the firmware loads when it starts
LoadedPresets(disk) ==
  LET v == IF PresetsPath \in DOMAIN disk THEN JsonLoads(disk[PresetsPath])
           ELSE NoJson
  IN IF v.kind = "dict" THEN v ELSE EmptyDict

\* The devices the engine starts on: the files on the disk, the hardware the
\* configuration sets up (board: LED strip, whammy and joystick, or none of
\* them), and whether the firmware may write files.
\* boot.py lines 90-95: the USB drive stays enabled, and the file system
\* read-only for the firmware, when the green fret is held at power-up.
Setups ==
  { [disk |-> DiskA, board |-> TRUE, rw |-> TRUE],
    [disk |-> DiskB, board |-> TRUE, rw |-> TRUE],
    [disk |-> DiskC, board |-> FALSE, rw |-> TRUE],
    [disk |-> DiskB, board |-> TRUE, rw |-> FALSE] }

InitWith(disk, board, rw, plan) ==
  /\ wire = <<>> /\ rx = <<>> /\ tx = <<>>
  /\ buffer = <<>> /\ mode = None /\ filename = <<>> /\ file_lines = <<>>
  /\ tilt = FALSE
  /\ leds = [present |-> board, live |-> board, px |-> [i \in 1..LedCount |-> Black]]
  /\ buttons = [k \in ButtonKeys |-> TRUE]
  /\ whammy = [present |-> board, live |-> board]
  /\ joystick = board
  /\ user_presets = LoadedPresets(disk)
  /\ preset_colors = DictGet(LoadedPresets(disk).d, "NewUserPreset1", "{}")
  /\ fs = disk
  /\ writable = rw
  /\ bootsel = FALSE /\ halted = FALSE
  /\ log = <<>> /\ eaten = <<>> /\ merged = NoMerge
  /\ mark = [buffer |-> <<>>, mode |-> None, filename |-> <<>>,
             file_lines |-> <<>>, tilt |-> FALSE,
             leds |-> [present |-> board, live |-> board,
                       px |-> [i \in 1..LedCount |-> Black]],
             buttons |-> [k \in ButtonKeys |-> TRUE],
             whammy |-> [present |-> board, live |-> board],
             user_presets |-> LoadedPresets(disk),
             preset_colors |-> DictGet(LoadedPresets(disk).d, "NewUserPreset1", "{}"),
             fs |-> disk, bootsel |-> FALSE, halted |-> FALSE,
             merged |-> NoMerge]
  /\ todo = plan


\* ------------------------------------------------------------ the client
\* the lines a client sends (without the terminating newline)
CommandLines ==
  { <<"DETECTPIN", ":", "GREEN_FRET">>,
    <<"SAVEPIN", ":", "GREEN_FRET", ":", "GP10">>,
    <<"SAVEPIN", ":", "GREEN_FRET">>,
    <<"CANCELPINDETECT">>,
    <<"PREVIEWLED", ":", "green-fret", ":", "#FF0000">>,
    <<"PREVIEWLED", ":", "GREEN-FRET", ":", "#0A141E">>,
    <<"PREVIEWLED", ":", "bogus", ":", "#FF0000">>,
    <<"PREVIEWLED", ":", "strum-up", ":", "#FF0000">>,
    <<"PREVIEWLED", ":", "green-fret", ":", "zz">>,
    <<"PREVIEWLED", ":", "green-fret">>,
    <<"READFILE", ":", "notes", ".txt">>,
    <<"READFILE", ":", "user_presets", ".json">>,
    <<"READFILE", ":", "config", ".json">>,
    <<"READWHAMMY">>,
    <<"READJOYSTICK">>,
    <<"WRITEFILE", ":", "config", ".json">>,
    <<"WRITEFILE", ":", "user_presets", ".json">>,
    <<"WRITEFILE", ":", "notes", ".txt">>,
    <<"WRITEFILE", ":">>,
    <<"IMPORTUSER">>,
    <<"READPIN", ":", "GREEN_FRET">>,
    <<"READPIN", ":", "nonexistent">>,
    <<"TILTWAVE">>,
    <<"TILTWAVE_ENABLE", ":", "TRUE">>,
    <<"TILTWAVE_ENABLE", ":", "off">>,
    <<"SETLED", ":", "0", ":", "10", ":", "20", ":", "30">>,
    <<"SETLED", ":", "2", ":", "300", ":", "0", ":", "0">>,
    <<"SETLED", ":", "2", ":", "10", ":", "20", ":", "30">>,
    <<"SETLED", ":", "1", ":", "0", ":", "255", ":", "300">>,
    <<"SETLED", ":", "-1", ":", "10", ":", "20", ":", "30">>,
    <<"SETLED", ":", "0", ":", "10">>,
    <<"SETLED", ":", "x", ":", "0", ":", "0", ":", "0">>,
    <<"LEDRESTORE">>,
    <<"REBOOTBOOTSEL">>,
    <<"REBOOT">>,
    <<"READUID">>,
    <<"READUID", CR>> }

\* lines that are no command: payload text, END, noise
PayloadLines ==
  { <<"END">>,
    <<"{">>,
    <<"}">>,
    <<CompactEntry("B", "2")>>,
    <<"{", CompactEntry("NewUserPreset1", "2"), "}">>,
    <<"{", CompactEntry("B", "2"), ",", CompactEntry("NewUserPreset1", "1"), "}">>,
    <<"[1]">>,
    <<"hello">>,
    <<>>,
    <<"hello", BadByte, "world">> }

Lines == CommandLines \cup PayloadLines

\* the byte budgets the main loop calls the engine with
Budgets == {SmallBudget, DefaultMaxBytes}

\* what a client puts between a session starter and END
Payloads ==
  { <<>>,
    << <<"{">>, <<"}">> >>,
    << <<"{", CompactEntry("B", "2"), ",", CompactEntry("NewUserPreset1", "1"), "}">> >>,
    << <<"{">>, <<CompactEntry("NewUserPreset1", "2")>>, <<"}">> >>,
    << <<"[1]">> >>,
    << <<"hello">> >>,
    << <<"{">>, <<"PREVIEWLED", ":", "green-fret", ":", "#FF0000">>, <<"}">> >>,
    << <<"{", "}">>, <<"REBOOT">> >>,
    << <<"DETECTPIN", ":", "GREEN_FRET">>, <<"READFILE", ":", "notes", ".txt">>,
       <<"SETLED", ":", "0", ":", "10", ":", "20", ":", "30">>,
       <<"WRITEFILE", ":", "notes", ".txt">> >> }

Starters ==
  { <<"WRITEFILE", ":", "config", ".json">>,
    <<"WRITEFILE", ":", "user_presets", ".json">>,
    <<"WRITEFILE", ":", "notes", ".txt">>,
    <<"WRITEFILE", ":">>,
    <<"IMPORTUSER">> }

\* a payload session: the starter, the payload lines, END
Session(starter, payload) == <<starter>> \o payload \o << <<"END">> >>
Sessions == {Session(st, p) : st \in Starters, p \in Payloads}

\* commands a client sends after something else to see that the engine works
FollowUps ==
  { <<"READFILE", ":", "notes", ".txt">>,
    <<"READFILE", ":", "user_presets", ".json">>,
    <<"READPIN", ":", "GREEN_FRET">>,
    <<"READWHAMMY">>,
    <<"READUID">> }

\* commands that change the device or can fail in a collaborator
Openers ==
  { <<"DETECTPIN", ":", "GREEN_FRET">>,
    <<"SAVEPIN", ":", "GREEN_FRET", ":", "GP10">>,
    <<"CANCELPINDETECT">>,
    <<"TILTWAVE">>,
    <<"REBOOT">>,
    <<"REBOOTBOOTSEL">>,
    <<"hello", BadByte, "world">> }

\* what a client sends in one run: one line; a session; a session or an
\* opener and then a follow-up; the same merge session twice; a session
\* that an undecodable byte interrupts, and then a follow-up
Plans ==
  { <<l>> : l \in Lines }
    \cup Sessions
    \cup { ss \o <<c>> : ss \in Sessions, c \in FollowUps }
    \cup { <<o, c>> : o \in Openers, c \in FollowUps }
    \cup { Session(<<"IMPORTUSER">>, p) \o Session(<<"IMPORTUSER">>, p) : p \in Payloads }
    \cup { <<st, <<"{">>, <<"hello", BadByte, "world">>, c>> :
             st \in Starters, c \in FollowUps }

Init == \E d \in Setups, plan \in Plans : InitWith(d.disk, d.board, d.rw, plan)

\* the client has read the responses so far and sends its next line, which
\* arrives in the channel as a whole; at most MaxBacklog bytes of the lines
\* before it are still unread by the engine
Send ==
  /\ todo # <<>>
  /\ Len(rx) <= MaxBacklog
  /\ rx' = rx \o Head(todo) \o <<NL>>
  /\ todo' = Tail(todo)
  /\ tx' = <<>> /\ log' = <<>>
  /\ UNCHANGED <<wire, buffer, mode, filename, file_lines, tilt, leds, buttons,
                 whammy, joystick, user_presets, preset_colors, fs, writable,
                 bootsel, halted, eaten, merged, mark>>

\* the main loop calls handle_serial once
Invoke(max_bytes, f) ==
  /\ ~halted
  /\ Returned(handle_serial(Engine, max_bytes, f))
  /\ UNCHANGED <<wire, joystick, writable, todo>>

Next ==
  \/ Send
  \/ \E b \in Budgets, f \in Oracles : Invoke(b, f)

Spec == Init /\ [][Next]_vars

\* ----------------------------------------------- the client, byte by byte
\* The same engine with the bytes of a line arriving in pieces.
\* what a client sends in one run: one line, or a session
BytePlans ==
  { <<l>> : l \in Lines }
    \cup Sessions

InitBytes ==
  \E d \in Setups, plan \in BytePlans : InitWith(d.disk, d.board, d.rw, plan)

\* the client has read the responses so far and sends its next line
SendBytes ==
  /\ todo # <<>>
  /\ wire = <<>> /\ Len(rx) <= MaxBacklog
  /\ wire' = Head(todo) \o <<NL>>
  /\ todo' = Tail(todo)
  /\ tx' = <<>> /\ log' = <<>>
  /\ UNCHANGED <<rx, buffer, mode, filename, file_lines, tilt, leds, buttons,
                 whammy, joystick, user_presets, preset_colors, fs, writable,
                 bootsel, halted, eaten, merged, mark>>

\* some of the bytes under way arrive in the serial channel
Deliver(k) ==
  /\ k <= Len(wire)
  /\ rx' = rx \o SubSeq(wire, 1, k)
  /\ wire' = SubSeq(wire, k + 1, Len(wire))
  /\ UNCHANGED <<tx, buffer, mode, filename, file_lines, tilt, leds, buttons,
                 whammy, joystick, user_presets, preset_colors, fs, writable,
                 bootsel, halted, log, eaten, merged, mark, todo>>

NextBytes ==
  \/ SendBytes
  \/ \E k \in 1..MaxChunk : Deliver(k)
  \/ \E b \in Budgets, f \in Oracles : Invoke(b, f)

SpecBytes == InitBytes /\ [][NextBytes]_vars

\* ------------------------------------------------------------ properties
\* the records of the lines the last invocation completed
Entries == {log[i] : i \in 1..Len(log)}
LineEntries == {e \in Entries : e.kind = "line"}
\* the END line of a payload session
EndEntries == {e \in LineEntries : e.pre.mode # None /\ e.line = <<"END">>}
\* the payload of the session an entry belongs to, as END joins it
RawPayload(e) == Join(e.pre.file_lines, NL)
\* the response is one or more lines and the first starts with ERROR
IsErrorResponse(out) ==
  /\ out # <<>> /\ Last(out) = NL
  /\ Head(out) \in {"ERROR: ", "ERROR: Failed to write ", "ERROR: Unknown command",
                    "ERROR: Serial crash: "}
\* an engine that continues from the state a record holds, with the given
\* bytes waiting in the channel
EngineFrom(snap, bytes) ==
  [rx |-> bytes, tx |-> <<>>, ev |-> <<>>, at |-> <<>>, exc |-> "", ret |-> FALSE,
   log |-> <<>>, mark |-> snap, eaten |-> <<>>, merged |-> snap.merged,
   buffer |-> snap.buffer, mode |-> snap.mode, filename |-> snap.filename,
   file_lines |-> snap.file_lines, tilt |-> snap.tilt, leds |-> snap.leds,
   buttons |-> snap.buttons, whammy |-> snap.whammy, joystick |-> joystick,
   user_presets |-> snap.user_presets, preset_colors |-> snap.preset_colors,
   fs |-> snap.fs, writable |-> writable, bootsel |-> snap.bootsel,
   halted |-> snap.halted]

\* C1: when END closes a WRITEFILE session for a .json file whose payload
\* does not parse as JSON, the disk is as before, no collaborator (hardware
\* release, reset, file write) is called, an ERROR line is the response, and
\* the engine is left exactly as an Idle engine with an empty payload and an
\* empty line buffer, so that the next line is dispatched as an Idle command.
C1_InvalidJsonLeavesFile ==
  \A e \in EndEntries :
    (/\ e.pre.mode = "write"
     /\ Last(e.pre.filename) = ".json"
     /\ JsonLoads(RawPayload(e)) = NoJson)
    => /\ e.post.fs = e.pre.fs
       /\ e.ev = <<>>
       /\ IsErrorResponse(e.tx)
       /\ Len(ClientLines(e.tx)) = 1
       /\ e.post = [e.pre EXCEPT !.mode = None, !.file_lines = <<>>]
       /\ e.post.buffer = <<>>

C1_Witness ==
  \E e \in EndEntries :
    /\ e.pre.mode = "write"
    /\ e.pre.filename = ConfigPath
    /\ e.pre.file_lines # <<>>
    /\ JsonLoads(RawPayload(e)) = NoJson
    /\ writable
    /\ e.post.mode = None

\* the END of a WRITEFILE:config.json session whose payload is valid JSON, on
\* a device whose file system the firmware can write
ConfigWritten(e) ==
  /\ e.pre.mode = "write"
  /\ e.pre.filename = ConfigPath
  /\ JsonLoads(RawPayload(e)) # NoJson
  /\ writable

\* the calls of the reset path in their order: the file write, the release
\* of the LED strip (if there is one), of every button pin and of the whammy
\* input (if there is one), and one reset
ResetPathCalls(e) ==
  <<"file.write">>
    \o (IF e.pre.leds.present THEN <<"leds.deinit">> ELSE <<>>)
    \o [i \in 1..Cardinality(ButtonKeys) |-> "pin.deinit"]
    \o (IF e.pre.whammy.present THEN <<"whammy.deinit">> ELSE <<>>)
    \o <<"reset">>

NextCommands == {c \o <<NL>> : c \in FollowUps}
\* the engine as it is when it has just been started on the device a record
\* describes: Idle, nothing buffered, every hardware handle set up
FreshEngine(snap) ==
  [snap EXCEPT !.buffer = <<>>, !.mode = None, !.file_lines = <<>>,
               !.buttons = [k \in ButtonKeys |-> TRUE],
               !.leds.live = snap.leds.present,
               !.whammy.live = snap.whammy.present]

\* C3: when a handler fails with an exception that reaches the top level,
\* the invocation ends with the line buffer empty, the session Idle, the
\* payload empty and an error line written, and the next command gets the
\* response a freshly started engine gives.
C3_CrashRecovery ==
  \A e \in Entries :
    e.crashed
    => /\ e.post.buffer = <<>> /\ e.post.mode = None /\ e.post.file_lines = <<>>
       /\ IsErrorResponse(e.tx)
       /\ e = log[Len(log)]
       /\ \A c \in NextCommands, f \in Oracles :
            handle_serial(EngineFrom(e.post, c), Len(c), f).tx
              = handle_serial(EngineFrom(FreshEngine(e.post), c), Len(c), f).tx

\* C4: END always ends a payload session: whatever the mode, the target path
\* and the payload, and whether the write or merge succeeded, failed to
\* parse or failed on I/O, the session is Idle with the payload cleared.
C4_EndAlwaysIdle ==
  \A e \in EndEntries : e.post.mode = None /\ e.post.file_lines = <<>>

C4_Witness ==
  \E e \in EndEntries :
    /\ e.pre.mode = "merge_user"
    /\ e.pre.file_lines # <<>>
    /\ JsonLoads(RawPayload(e)).kind = "dict"
    /\ ~writable
    /\ IsErrorResponse(e.tx)
    /\ e.post.mode = None

\* C5: however the bytes of a line were split over invocations and whatever
\* the byte budgets were, the bytes written for the line, the calls made and
\* the state after it are those of one invocation that finds the whole line
\* in the channel.
C5_SplitEqualsWhole ==
  \A e \in Entries :
    LET r == handle_serial(EngineFrom(e.pre, e.raw), Len(e.raw), e.f)
    IN /\ r.rx = <<>>
       /\ Len(r.log) = 1
       /\ r.tx = e.tx
       /\ Snap(r) = e.post
       /\ r.log[1].line = e.line
       /\ r.log[1].ev = e.ev

\* a line longer than the largest budget: several invocations assembled it
C5_Witness ==
  \E e \in LineEntries :
    /\ Len(e.raw) > DefaultMaxBytes
    /\ e.tx # <<>>
    /\ e.post # e.pre

\* the command tags of the protocol
ColonTags == {"DETECTPIN", "SAVEPIN", "PREVIEWLED", "READFILE", "WRITEFILE",
              "READPIN", "SETLED", "TILTWAVE_ENABLE"}
WordTags == {"CANCELPINDETECT", "READWHAMMY", "READJOYSTICK", "IMPORTUSER",
             "TILTWAVE", "LEDRESTORE", "REBOOTBOOTSEL", "REBOOT", "READUID"}
Recognized(line) ==
  \/ \E t \in ColonTags : StartsWithTag(line, t)
  \/ \E t \in WordTags : line = <<t>>

\* C6: while Idle, a line that matches no command tag is answered by exactly
\* one line, ERROR: Unknown command, and leaves session, line buffer,
\* hardware and files as they were when the line started.
C6_UnknownCommand ==
  \A e \in LineEntries :
    (e.pre.mode = None /\ ~Recognized(e.line))
    => /\ e.tx = <<"ERROR: Unknown command", NL>>
       /\ e.post = e.pre
       /\ e.ev = <<>>

C6_Witness ==
  \E e \in LineEntries :
    /\ e.pre.mode = None /\ ~Recognized(e.line)
    /\ e.line = <<"END">>
    /\ e.tx # <<>>

\* C7: a PREVIEWLED line never causes anything to be written to the serial
\* channel, in any session state.
C7_PreviewSilent ==
  \A e \in LineEntries : StartsWithTag(e.line, "PREVIEWLED") => e.tx = <<>>

\* C8: the END of every payload session (WRITEFILE for any file name,
\* IMPORTUSER) writes at least one response line.
C8_EndAnswers ==
  \A e \in EndEntries : ClientLines(e.tx) # <<>>

\* C9: the response to READFILE while Idle ends with a line that is exactly
\* END, whatever the file holds and whether or not it can be read.
C9_ReadFileEndsWithEnd ==
  \A e \in LineEntries :
    (e.pre.mode = None /\ StartsWithTag(e.line, "READFILE"))
    => /\ e.tx # <<>> /\ Last(e.tx) = NL
       /\ Last(ClientLines(e.tx)) = <<"END">>

\* the END of an IMPORTUSER session that repeats the last merge session:
\* the same payload, and files and preset cache as that session left them
RepeatsMerge(e) ==
  /\ e.pre.mode = "merge_user"
  /\ e.pre.merged.done
  /\ e.pre.merged.payload = e.pre.file_lines
  /\ e.pre.merged.fs = e.pre.fs
  /\ e.pre.merged.user_presets = e.pre.user_presets
  /\ e.pre.merged.preset_colors = e.pre.preset_colors

\* C10: running the session IMPORTUSER, D, END a second time leaves
\* /user_presets.json and the preset cache as the first run left them.
C10_MergeIdempotent ==
  \A e \in EndEntries :
    RepeatsMerge(e)
    => /\ e.post.fs = e.pre.fs
       /\ e.post.user_presets = e.pre.user_presets
       /\ e.post.preset_colors = e.pre.preset_colors

\* the first run changed the file, the second run succeeds as well
C10_Witness ==
  \E e \in EndEntries :
    /\ RepeatsMerge(e)
    /\ e.pre.merged.changed
    /\ Len(e.pre.user_presets.d) > 1
    /\ Head(e.tx) = "OK Merged into "

\* a SETLED line with five fields that all spell integers
SetLedFields(line) ==
  LET parts == SplitOn(line, ":") IN
  IF StartsWithTag(line, "SETLED") /\ Len(parts) = 5
       /\ \A k \in 2..5 : IntOf(parts[k]) # <<>>
  THEN [k \in 1..4 |-> IntOf(parts[k + 1])[1]]
  ELSE <<>>
\* index and channels are in range for a device with a strip
SetLedValid(e, v) ==
  /\ e.pre.leds.present
  /\ 0 <= v[1] /\ v[1] < LedCount
  /\ \A k \in 2..4 : 0 <= v[k] /\ v[k] <= 255

\* C11: a SETLED line with five integer fields processed while Idle: with a
\* strip, an index inside the strip and channels in 0..255 the response is
\* SETLED:<i>:OK, the pixel holds (r,g,b), the strip is latched once and the
\* other pixels are unchanged; otherwise the response is SETLED:<i>:ERR and
\* the strip is not touched.  Nothing else changes in either case.
C11_SetLed ==
  \A e \in LineEntries :
    (e.pre.mode = None /\ SetLedFields(e.line) # <<>>)
    => LET v == SetLedFields(e.line) IN
       IF SetLedValid(e, v)
       THEN /\ e.tx = <<"SETLED:", ToString(v[1]), ":OK", NL>>
            /\ e.post.leds.px[v[1] + 1] = <<v[2], v[3], v[4]>>
            /\ \A i \in 1..LedCount :
                 i # v[1] + 1 => e.post.leds.px[i] = e.pre.leds.px[i]
            /\ e.ev = <<"leds.show">>
            /\ e.post = [e.pre EXCEPT !.leds.px[v[1] + 1] = <<v[2], v[3], v[4]>>]
       ELSE /\ e.tx = <<"SETLED:", ToString(v[1]), ":ERR", NL>>
            /\ e.ev = <<>>
            /\ e.post = e.pre

\* a pixel was set and latched
C11_Witness ==
  \E e \in LineEntries :
    /\ e.pre.mode = None
    /\ SetLedFields(e.line) = <<0, 10, 20, 30>>
    /\ e.post.leds.px[1] = <<10, 20, 30>>
    /\ e.post.leds.px # e.pre.leds.px
    /\ "leds.show" \in {e.ev[i] : i \in 1..Len(e.ev)}

\* the key a READPIN line asks for
ReadPinKey(line) == Strip(AfterTag(line))
InRegistry(key) == Len(key) = 1 /\ key[1] \in ButtonKeys

\* C12: READPIN:<key> processed while Idle answers PIN:<key>:ERR for a key
\* that is not in the button registry, and for a key in the registry
\* PIN:<key>:1 when the pin is low and PIN:<key>:0 when it is high; registry,
\* session and LED strip are unchanged.
C12_ReadPin ==
  \A e \in LineEntries :
    (e.pre.mode = None /\ StartsWithTag(e.line, "READPIN"))
    => /\ e.post = e.pre
       /\ e.tx = <<"PIN:">> \o ReadPinKey(e.line)
                   \o (IF InRegistry(ReadPinKey(e.line))
                       THEN <<":", IF e.f.level THEN "0" ELSE "1", NL>>
                       ELSE <<":ERR", NL>>)

\* C12 for the pins that are initialized when the line is processed
C12_ReadPinLivePins ==
  \A e \in LineEntries :
    (/\ e.pre.mode = None /\ StartsWithTag(e.line, "READPIN")
     /\ InRegistry(ReadPinKey(e.line)) => e.pre.buttons[ReadPinKey(e.line)[1]])
    => /\ e.post = e.pre
       /\ e.tx = <<"PIN:">> \o ReadPinKey(e.line)
                   \o (IF InRegistry(ReadPinKey(e.line))
                       THEN <<":", IF e.f.level THEN "0" ELSE "1", NL>>
                       ELSE <<":ERR", NL>>)

\* the response of DETECTPIN up to the call of detect_pin
DetectStart(line) == <<"PINDETECT:START:">> \o Strip(AfterTag(line)) \o <<NL>>

\* C13: every DETECTPIN:<name> processed while Idle runs deinit ->
\* PINDETECT:START -> detection -> DETECTED/NONE -> reinitialize, on every
\* path out of the command, so that the buttons are initialized when the
\* invocation returns.
C13_DetectPinReinitializes ==
  \A e \in LineEntries :
    (e.pre.mode = None /\ StartsWithTag(e.line, "DETECTPIN"))
    => /\ \A k \in ButtonKeys : e.post.buttons[k]
       /\ e.ev = <<"deinit_all_buttons", "detect_pin", "setup_buttons">>
       /\ e.at = <<0, Len(DetectStart(e.line)), Len(e.tx)>>
       /\ SubSeq(e.tx, 1, Len(DetectStart(e.line))) = DetectStart(e.line)
       /\ e.tx[Len(DetectStart(e.line)) + 1]
            \in {"PINDETECT:DETECTED:", "PINDETECT:NONE:"}

\* C14: an invocation with byte budget B takes at most B bytes, from the
\* front of the channel, and returns; an invocation that finds the channel
\* empty takes nothing, writes nothing and leaves line buffer, session
\* mode, target path, payload and every resource handle as they were.
C14_BoundedWork ==
  [][\A b \in Budgets, f \in Oracles :
       Invoke(b, f)
       => /\ Len(rx) - Len(rx') \in 0..b
          /\ rx' = SubSeq(rx, Len(rx) - Len(rx') + 1, Len(rx))
          /\ rx = <<>>
             => /\ tx' = <<>> /\ log' = <<>>
                /\ UNCHANGED <<rx, buffer, mode, filename, file_lines, tilt, leds,
                               buttons, whammy, joystick, user_presets,
                               preset_colors, fs, bootsel, halted>>]_vars

\* the engine holds the DefaultMaxBytes bytes of an unfinished line, and
\* more bytes are waiting in the channel
C14_Witness ==
  /\ Len(buffer) = DefaultMaxBytes
  /\ eaten = buffer
  /\ rx # <<>>
  /\ log = <<>> /\ tx = <<>>

\* the acknowledgment lines of the two reboot commands
RebootAck == <<"Rebooting...", NL>>
BootselAck == <<" Rebooting to BOOTSEL mode...", NL>>
\* what follows the acknowledgment when arming or reset failed
RebootFailure(e, ack) ==
  /\ Len(e.tx) = Len(ack) + 3
  /\ e.tx[Len(ack) + 1] \in {"ERROR: Failed to reboot: ",
                             "ERROR: Failed to reboot to BOOTSEL: "}
  /\ Last(e.tx) = NL
  /\ ~e.post.halted /\ e.post.mode = None /\ ~e.crashed

\* C15: REBOOT and REBOOTBOOTSEL processed while Idle write their
\* acknowledgment line before the reset is called; REBOOTBOOTSEL arms the
\* firmware-update flag after the acknowledgment and before the reset, REBOOT
\* never arms it; when arming or reset fails, one ERROR line follows, the
\* engine stays Idle and neither call is repeated.
C15_RebootOrdering ==
  \A e \in LineEntries :
    /\ (e.pre.mode = None /\ e.line = <<"REBOOT">>)
       => /\ SubSeq(e.tx, 1, Len(RebootAck)) = RebootAck
          /\ e.ev = <<"reset">> /\ e.at = <<Len(RebootAck)>>
          /\ e.post.bootsel = e.pre.bootsel
          /\ IF e.f.reset = "raise" THEN RebootFailure(e, RebootAck)
             ELSE e.tx = RebootAck /\ e.post.halted
    /\ (e.pre.mode = None /\ e.line = <<"REBOOTBOOTSEL">>)
       => /\ SubSeq(e.tx, 1, Len(BootselAck)) = BootselAck
          /\ e.ev = (IF e.f.arm = "raise" THEN <<>>
                     ELSE <<"on_next_reset", "reset">>)
          /\ \A i \in 1..Len(e.at) : e.at[i] = Len(BootselAck)
          /\ e.post.bootsel = (e.f.arm # "raise")
          /\ IF e.f.arm = "raise" \/ e.f.reset = "raise"
             THEN RebootFailure(e, BootselAck)
             ELSE e.tx = BootselAck /\ e.post.halted

\* REBOOTBOOTSEL acknowledged, armed the flag and reset the device
C15_Witness ==
  \E e \in LineEntries :
    /\ e.pre.mode = None /\ e.line = <<"REBOOTBOOTSEL">>
    /\ e.ev = <<"on_next_reset", "reset">>
    /\ e.tx = BootselAck
    /\ e.post.bootsel /\ e.post.halted

\* C16: in every state the engine returns to its caller, the pending payload
\* lines are non-empty only if the session is not Idle.
C16_IdleHasNoPayload == mode = None => file_lines = <<>>

\* a session that held payload lines has ended, by END or by crash recovery
C16_Witness ==
  /\ mode = None /\ file_lines = <<>>
  /\ \E e \in Entries :
       /\ e.pre.mode # None /\ e.pre.file_lines # <<>>
       /\ e.crashed
       /\ e.post.mode = None

\* a line of a payload session that is neither END nor a PREVIEWLED line
PayloadLine(e) ==
  /\ e.pre.mode \in {"write", "merge_user"}
  /\ e.line # <<"END">>
  /\ ~StartsWithTag(e.line, "PREVIEWLED")

\* C17: while a payload session (write or merge_user) is active, every
\* completed line other than END and other than a PREVIEWLED line, command
\* text included, is appended to the payload in arrival order, gets no
\* response, calls no collaborator and changes nothing else: files, LEDs,
\* buttons, reset state, mode and target path stay as they were.
C17_PayloadLinesOnlyAppend ==
  \A e \in LineEntries :
    PayloadLine(e)
    => /\ e.post = [e.pre EXCEPT !.file_lines = Append(@, e.line)]
       /\ e.tx = <<>>
       /\ e.ev = <<>>
       /\ ~e.crashed

\* a command line arrived after other payload lines and was appended
C17_Witness ==
  \E e \in LineEntries :
    /\ PayloadLine(e)
    /\ e.pre.file_lines # <<>>
    /\ Recognized(e.line)
    /\ Last(e.post.file_lines) = e.line

\* the transitions of the session: a session starts, a session ends (END
\* or crash recovery), a payload line is appended
StartsWrite(e) ==
  /\ e.kind = "line" /\ e.pre.mode = None /\ StartsWithTag(e.line, "WRITEFILE")
StartsMerge(e) ==
  /\ e.kind = "line" /\ e.pre.mode = None /\ e.line = <<"IMPORTUSER">>
EndsSession(e) ==
  /\ e.pre.mode # None
  /\ (e.kind = "line" /\ e.line = <<"END">>) \/ e.crashed
  /\ e.post.mode = None /\ e.post.file_lines = <<>>
AppendsPayload(e) ==
  /\ e.kind = "line" /\ e.pre.mode # None /\ e.line # <<"END">>
  /\ e.post.mode = e.pre.mode
  /\ e.post.file_lines = Append(e.pre.file_lines, e.line)

\* C18: WRITEFILE:<name> while Idle opens a write session for "/" + name
\* and IMPORTUSER while Idle a merge session for /user_presets.json, both
\* with an empty payload; a session becomes Idle on END or on crash
\* recovery; no other line (successful, malformed or unknown command)
\* changes the session mode or the payload.
C18_ModeTransitions ==
  \A e \in Entries :
    /\ StartsWrite(e)
       => /\ e.post.mode = "write"
          /\ e.post.filename = <<Root>> \o AfterTag(e.line)
          /\ e.post.file_lines = <<>>
    /\ StartsMerge(e)
       => /\ e.post.mode = "merge_user"
          /\ e.post.filename = PresetsPath
          /\ e.post.file_lines = <<>>
    /\ (e.post.mode # e.pre.mode \/ e.post.file_lines # e.pre.file_lines)
       => StartsWrite(e) \/ StartsMerge(e) \/ EndsSession(e) \/ AppendsPayload(e)

\* a malformed command (wrong argument count or type) was answered while
\* Idle and left the session Idle with an empty payload
C18_Witness ==
  \E e \in LineEntries :
       /\ e.pre.mode = None
       /\ e.line \in {<<"SAVEPIN", ":", "GREEN_FRET">>,
                      <<"SETLED", ":", "0", ":", "10">>,
                      <<"SETLED", ":", "x", ":", "0", ":", "0", ":", "0">>}
       /\ e.tx # <<>>
       /\ e.post.mode = None /\ e.post.file_lines = <<>>

\* the pixel a PREVIEWLED line names in the configuration of the model and
\* the colour it spells, for the lines that name both correctly
PreviewPixel(line) ==
  IF line = <<"PREVIEWLED", ":", "green-fret", ":", "#FF0000">>
  THEN <<1, <<255, 0, 0>> >>
  ELSE IF line = <<"PREVIEWLED", ":", "GREEN-FRET", ":", "#0A141E">>
  THEN <<1, <<10, 20, 30>> >>
  ELSE <<>>

\* C19: a PREVIEWLED line received while a payload session is active is
\* applied to the LED strip (when it names an LED of the configuration and
\* a colour, and the device has a strip) and is appended to the pending
\* payload like any other payload line, without a response.
C19_PreviewInSession ==
  \A e \in LineEntries :
    (e.pre.mode \in {"write", "merge_user"} /\ StartsWithTag(e.line, "PREVIEWLED"))
    => /\ e.post.file_lines = Append(e.pre.file_lines, e.line)
       /\ e.post.mode = e.pre.mode /\ e.post.filename = e.pre.filename
       /\ e.tx = <<>>
       /\ IF PreviewPixel(e.line) # <<>> /\ e.pre.leds.present
          THEN /\ e.post.leds.px[PreviewPixel(e.line)[1]] = PreviewPixel(e.line)[2]
               /\ e.ev = <<"leds.show">>
          ELSE e.post.leds = e.pre.leds /\ e.ev = <<>>

\* the preview changed a pixel and the line is the last payload line
C19_Witness ==
  \E e \in LineEntries :
    /\ e.pre.mode = "write"
    /\ PreviewPixel(e.line) # <<>>
    /\ e.post.leds.px # e.pre.leds.px
    /\ e.pre.file_lines # <<>>
    /\ Last(e.post.file_lines) = e.line

\* the response holds a line that starts with ERROR
HasErrorLine(out) ==
  \E i \in 1..Len(out) :
    /\ out[i] \in {"ERROR: ", "ERROR: Failed to write "}
    /\ i = 1 \/ out[i - 1] = NL
\* the response holds the success marker of a write to or a merge into path
HasSuccessMarker(out, path) ==
  \E i \in 1..Len(out) :
    /\ out[i] \in {"OK File ", "OK Merged into "}
    /\ SubSeq(out, i + 1, i + Len(path)) = path
\* the document a file holds
DocumentAt(disk, path) ==
  IF path \in DOMAIN disk THEN JsonLoads(disk[path]) ELSE NoJson

\* C20: the END of a write or merge_user session is all-or-nothing: when its
\* response holds an ERROR line, the files on disk and the in-memory preset
\* cache are as they were before the END; when it holds the success marker
\* for /user_presets.json, the preset cache equals the document on disk.
C20_AllOrNothing ==
  \A e \in EndEntries :
    /\ HasErrorLine(e.tx)
       => /\ e.post.fs = e.pre.fs
          /\ e.post.user_presets = e.pre.user_presets
          /\ e.post.preset_colors = e.pre.preset_colors
    /\ HasSuccessMarker(e.tx, PresetsPath)
       => /\ e.post.user_presets = DocumentAt(e.post.fs, PresetsPath)
          /\ e.post.preset_colors
               = DictGet(DocumentAt(e.post.fs, PresetsPath).d, "NewUserPreset1", "{}")

\* the END of a WRITEFILE session for a file other than /config.json whose
\* payload the write path accepted: the file was written, no ERROR line
AcceptedWrite(e) ==
  /\ e.pre.mode = "write"
  /\ e.pre.filename # ConfigPath
  /\ e.ev = <<"file.write">>
  /\ ~HasErrorLine(e.tx)
\* the lines a client reads when it sends READFILE for the file of the
\* session right after the END
ReadBack(e) ==
  LET c == <<"READFILE", ":">> \o Tail(e.pre.filename) \o <<NL>>
  IN ClientLines(handle_serial(EngineFrom(e.post, c), Len(c), Nominal).tx)

\* C21: for every file name other than config.json and every sequence L of
\* payload lines the write path accepts, the empty sequence included,
\* WRITEFILE:<name>, L, END and then READFILE:<name> returns exactly the
\* lines of L in order, followed by the END sentinel.
C21_WriteReadRoundTrip ==
  \A e \in EndEntries :
    AcceptedWrite(e) => ReadBack(e) = e.pre.file_lines \o << <<"END">> >>

\* C21 for the sessions with at least one payload line
C21_RoundTripNonEmpty ==
  \A e \in EndEntries :
    (AcceptedWrite(e) /\ e.pre.file_lines # <<>>)
    => ReadBack(e) = e.pre.file_lines \o << <<"END">> >>

====
